---- MODULE Spec2Model ----
(***************************************************************************)
(* The ChatUI widget of src/src/ChatUI.tsx as a state machine.             *)
(*                                                                         *)
(* State: the React state slots of one mounted ChatUI instance (question,  *)
(* messages, loading, error, isOpen), the abortControllerRef, and one      *)
(* record per call of handleSubmit that got past its guard: the position   *)
(* of that async call (awaiting fetch, awaiting res.json(), returned), the *)
(* state of its AbortController and the response it has seen so far.       *)
(*                                                                         *)
(* Steps: one per event handler (onChange, onSubmit, the Cancel, Hide and  *)
(* Open buttons) and one per continuation of handleSubmit after an await.  *)
(* The form, and with it every way to reach setQuestion, handleSubmit and  *)
(* handleCancel, exists only while the panel is rendered.  Within a        *)
(* rendered panel the handlers are modelled as the functions they are: the *)
(* view disables the input and swaps Send for Cancel while loading, but    *)
(* handleSubmit and handleCancel carry their own guards and those are what *)
(* is modelled.                                                            *)
(* Each handler reads the state of the latest render, and a functional     *)
(* update (setMessages(prev => ...)) applies to the latest value.          *)
(*                                                                         *)
(* A continuation runs once the promise it awaits has settled.  abort()    *)
(* only marks the signal; the rejection it causes is delivered to the      *)
(* awaiting call by the network layer and the job queue, as a step of its  *)
(* own, and other handlers may run before it.                              *)
(*                                                                         *)
(* JavaScript strings typed by the user are sequences of one-character     *)
(* strings, so that trim() is computed; texts that only pass through       *)
(* (response fields, status texts, error messages) are TLA+ strings.       *)
(*                                                                         *)
(* Two specifications run the same actions on different inputs.  Spec is   *)
(* a floating instance in which MaxReq calls of handleSubmit may overlap,  *)
(* with the texts drawn from a few values.  SpecTexts is an inline         *)
(* instance with MaxExchange calls, with the drafts, response bodies and   *)
(* status texts drawn from all the shapes the code distinguishes.          *)
(* SpecSettling is an instance of either kind, with MaxRetry calls, in     *)
(* which the network layer settles every promise it has handed out.        *)
(***************************************************************************)
EXTENDS Integers, Sequences, FiniteSets, TLC

VARIABLES
    floating,            \* prop `floating`, fixed for the instance
    question,            \* useState('')            : the Draft
    messages,            \* useState<Message[]>([]) : the Conversation
    loading,             \* useState(false)         : RequestState pending?
    error,               \* useState<string|null>   : <<>> is null, <<s>> is s
    isOpen,              \* useState(!floating)
    abortControllerRef,  \* useRef(null)            : 0 is null, else a request
    reqs,                \* the calls of handleSubmit that passed the guard
    nreq,                \* how many of them there are
    last                 \* history: what the last step was (see Step)

vars == <<floating, question, messages, loading, error, isOpen,
          abortControllerRef, reqs, nreq, last>>

----------------------------------------------------------------------------
(* Bounds of the model *)

\* calls of handleSubmit that pass its guard, in a behaviour of Spec
MaxReq == 3
\* the same, in a behaviour of SpecTexts
MaxExchange == 1
\* length of the Draft in SpecTexts
MaxDraft == 2
\* calls of handleSubmit that pass its guard, in a behaviour of SpecSettling
MaxRetry == 2

(* The texts the environment supplies *)

WhiteSpace == {" "}
Chars == WhiteSpace \cup {"a"}

RECURSIVE SeqsUpTo(_)
SeqsUpTo(n) ==
    IF n = 0 THEN {<<>>}
    ELSE LET shorter == SeqsUpTo(n - 1)
         IN  shorter \cup {Append(s, c) : s \in shorter, c \in Chars}

(* JavaScript values of the parsed body's fields *)
Undefined == [t |-> "undefined"]
JStr(s) == [t |-> "string", v |-> s]
JObj(m) == [t |-> "object", message |-> m]

DetailValues ==
    {Undefined, JStr(""), JStr("bad key"),
     JObj(Undefined), JObj(JStr("")), JObj(JStr("no credits"))}
AnswerValues == {Undefined, JStr("42")}

\* what res.json() resolves to: an object with the fields the code reads,
\* in the shapes of an error body and of a success body
EmptyObject == [detail |-> Undefined, answer |-> Undefined]
Bodies ==
    {[EmptyObject EXCEPT !.detail = d] : d \in DetailValues}
    \cup {[EmptyObject EXCEPT !.answer = a] : a \in AnswerValues}

\* what a promise of the network layer rejects with
AbortError == [name |-> "AbortError", message |-> "The user aborted a request."]
NetworkError == [name |-> "TypeError", message |-> "Failed to fetch"]
SyntaxError == [name |-> "SyntaxError", message |-> "Unexpected token"]

\* the inputs of Spec
FewInputs ==
    [cap |-> MaxReq,
     drafts |-> {<<>>, <<" ">>, <<"a">>},
     statusTexts |-> {"Internal Server Error"},
     bodies |-> {EmptyObject,
                 [detail |-> JStr("bad key"), answer |-> JStr("42")]}]

\* the inputs of SpecTexts
AllInputs ==
    [cap |-> MaxExchange,
     drafts |-> SeqsUpTo(MaxDraft),
     statusTexts |-> {"", "Internal Server Error"},
     bodies |-> Bodies]

\* the inputs of SpecSettling
PlainInputs ==
    [cap |-> MaxRetry,
     drafts |-> {<<>>, <<"a">>},
     statusTexts |-> {"Internal Server Error"},
     bodies |-> {[detail |-> Undefined, answer |-> JStr("42")]}]

----------------------------------------------------------------------------
(* Pure pieces of handleSubmit *)

RECURSIVE trimStart(_)
trimStart(s) ==
    IF s # <<>> /\ Head(s) \in WhiteSpace THEN trimStart(Tail(s)) ELSE s

RECURSIVE trimEnd(_)
trimEnd(s) ==
    IF s # <<>> /\ s[Len(s)] \in WhiteSpace
    THEN trimEnd(SubSeq(s, 1, Len(s) - 1))
    ELSE s

\* String.prototype.trim
trimStartOnly(s) == trimStart(s)
trim(s) == trimEnd(trimStart(s))

\* the characters of a JavaScript string as one TLA+ string
RECURSIVE ToText(_)
ToText(s) == IF s = <<>> THEN "" ELSE Head(s) \o ToText(Tail(s))

\* JavaScript truthiness of a field value
Truthy(x) ==
    \/ x.t = "object"
    \/ x.t = "string" /\ x.v # ""

\* a || b
Or(a, b) == IF Truthy(a) THEN a ELSE b

\* data.detail?.message
OptionalMessage(d) == IF d.t = "object" THEN d.message ELSE Undefined

\* if (!q || loading) return            -- TRUE when the submit goes on
SubmitGuardNoLoading(q, isLoading) == q # <<>>
SubmitGuardNoEmptyCheck(q, isLoading) == ~isLoading
SubmitGuard(q, isLoading) == ~(q = <<>> \/ isLoading)

\* res.json().catch(() => ({}))
\* a settled promise is [resolved |-> TRUE, value |-> v] or
\* [resolved |-> FALSE, reason |-> e]
JsonOrThrow(outcome) == outcome
JsonOrEmpty(outcome) ==
    IF outcome.resolved THEN outcome
    ELSE [resolved |-> TRUE, value |-> EmptyObject]

\* typeof data.detail === 'string' ? data.detail
\*   : data.detail?.message || res.statusText || 'Request failed'
ErrorTextNoStatus(data, statusText) ==
    IF data.detail.t = "string" THEN data.detail.v
    ELSE Or(OptionalMessage(data.detail), JStr("Request failed")).v
ErrorText(data, statusText) ==
    IF data.detail.t = "string" THEN data.detail.v
    ELSE Or(Or(OptionalMessage(data.detail), JStr(statusText)),
            JStr("Request failed")).v

\* data.answer ?? ''
AnswerTextOrPlaceholder(data) ==
    IF data.answer.t \in {"undefined", "null"} THEN "No answer"
    ELSE data.answer.v
AnswerText(data) ==
    IF data.answer.t \in {"undefined", "null"} THEN "" ELSE data.answer.v

\* err instanceof Error && err.name === 'AbortError'
IsAbort(err) == err.name = "AbortError"

UserMessage(q) == [role |-> "user", content |-> q, isError |-> FALSE]
AssistantMessage(c) == [role |-> "assistant", content |-> c, isError |-> FALSE]
ErrorMessage(c) == [role |-> "assistant", content |-> c, isError |-> TRUE]

----------------------------------------------------------------------------
(* One record per call of handleSubmit that passed the guard.              *)
(*   pc         where the call is: "fetch" (awaiting fetch), "json"        *)
(*              (awaiting res.json()), "done" (returned); "none" before    *)
(*   aborted    its AbortController's signal is aborted                    *)
(*   ok, statusText   of `res`, while the call awaits res.json()           *)
(*   q, at      history: the question sent and where its message went      *)
(*   appended   history: how many messages the call appended on settling   *)
NoReq == [pc |-> "none", aborted |-> FALSE, ok |-> FALSE, statusText |-> "",
          q |-> "", at |-> 0, appended |-> 0]

Requests == 1..MaxReq

(* What the last step was.                                                 *)
(*   op    "submit" or "cancel": a call of handleSubmit or handleCancel;   *)
(*         "open" or "close": a click on the Open or the Hide button;      *)
(*         "settled": the call r of handleSubmit returned; "none": other   *)
(*   r, ok, statusText, json   for "settled": the call, the `res` it had   *)
(*         and what its res.json() settled with (NotSettled when it never  *)
(*         got to res.json())                                              *)
NotSettled == [resolved |-> FALSE, reason |-> [name |-> "", message |-> ""]]

Step(op) == [op |-> op, r |-> 0, ok |-> FALSE, statusText |-> "",
             json |-> NotSettled]

\* the state after the first render of <ChatUI floating={isFloating} />
Mount(isFloating) ==
    /\ floating = isFloating
    /\ question = <<>>
    /\ messages = <<>>
    /\ loading = FALSE
    /\ error = <<>>
    /\ isOpen = ~floating
    /\ abortControllerRef = 0
    /\ reqs = [r \in Requests |-> NoReq]
    /\ nreq = 0
    /\ last = Step("none")

\* `floating = true` is the default of the prop (line 64)
Init == Mount(TRUE)

\* lines 217-246: inline, `panel` is always part of the output; floating, it
\* is only while isOpen
PanelRendered == ~floating \/ isOpen

\* <input onChange={(e) => setQuestion(e.target.value)}>: the Draft takes
\* any value (the input element is disabled while loading, the setter is not)
setQuestion(drafts) ==
    /\ PanelRendered
    /\ \E s \in drafts : question' = s
    /\ last' = Step("none")
    /\ UNCHANGED <<floating, messages, loading, error, isOpen,
                   abortControllerRef, reqs, nreq>>

\* handleSubmit up to its first await (lines 88-106)
handleSubmit(cap) ==
    LET q == trim(question) IN
    /\ PanelRendered
    /\ last' = Step("submit")
    /\ IF SubmitGuard(q, loading)
       THEN /\ nreq < cap
            /\ question' = <<>>
            /\ messages' = Append(messages, UserMessage(ToText(q)))
            /\ loading' = TRUE
            /\ error' = <<>>
            /\ nreq' = nreq + 1
            /\ abortControllerRef' = nreq + 1
            /\ reqs' = [reqs EXCEPT ![nreq + 1] =
                           [NoReq EXCEPT !.pc = "fetch", !.q = ToText(q),
                                         !.at = Len(messages) + 1]]
            /\ UNCHANGED <<floating, isOpen>>
       ELSE UNCHANGED <<floating, question, messages, loading, error,
                       isOpen, abortControllerRef, reqs, nreq>>

\* handleCancel that also dismisses the banner
handleCancelClearingError ==
    /\ PanelRendered
    /\ last' = Step("cancel")
    /\ IF abortControllerRef # 0
       THEN /\ reqs' = [reqs EXCEPT ![abortControllerRef].aborted = TRUE]
            /\ abortControllerRef' = 0
       ELSE UNCHANGED <<reqs, abortControllerRef>>
    /\ loading' = FALSE
    /\ error' = <<>>
    /\ UNCHANGED <<floating, question, messages, isOpen, nreq>>

\* lines 80-86
handleCancel ==
    /\ PanelRendered
    /\ last' = Step("cancel")
    /\ IF abortControllerRef # 0
       THEN /\ reqs' = [reqs EXCEPT ![abortControllerRef].aborted = TRUE]
            /\ abortControllerRef' = 0
       ELSE UNCHANGED <<reqs, abortControllerRef>>
    /\ loading' = FALSE
    /\ UNCHANGED <<floating, question, messages, error, isOpen, nreq>>

\* await fetch(url, {..., signal}) resolves: the response headers are here,
\* and the call goes on to res.json() and awaits the body
fetchResolved(r, statusTexts) ==
    /\ reqs[r].pc = "fetch"
    /\ ~reqs[r].aborted
    /\ \E ok \in BOOLEAN, st \in statusTexts :
          reqs' = [reqs EXCEPT ![r].pc = "json", ![r].ok = ok,
                               ![r].statusText = st]
    /\ last' = Step("none")
    /\ UNCHANGED <<floating, question, messages, loading, error, isOpen,
                   abortControllerRef, nreq>>

\* lines 107-111: the rest of the try block once res.json() has settled
\* with `outcome`; what it throws, or the answer it appends
AfterJson(r, outcome) ==
    LET data == JsonOrEmpty(outcome) IN
    IF ~data.resolved
    THEN [threw |-> TRUE, err |-> data.reason, content |-> ""]
    ELSE IF ~reqs[r].ok
    THEN [threw |-> TRUE,
          err |-> [name |-> "Error",
                   message |-> ErrorText(data.value, reqs[r].statusText)],
          content |-> ""]
    ELSE [threw |-> FALSE, err |-> AbortError,
          content |-> AnswerText(data.value)]

\* CatchFinally with a finally block that leaves loading as it is
CatchFinallyKeepLoading(r, c, outcome) ==
    /\ messages' =
          IF ~c.threw THEN Append(messages, AssistantMessage(c.content))
          ELSE IF IsAbort(c.err) THEN messages
          ELSE Append(messages, ErrorMessage(c.err.message))
    /\ error' =
          IF c.threw /\ ~IsAbort(c.err) THEN <<c.err.message>> ELSE error
    /\ abortControllerRef' = 0
    /\ loading' = loading
    /\ reqs' = [reqs EXCEPT ![r].pc = "done", ![r].ok = FALSE,
                            ![r].statusText = "",
                            ![r].appended = Len(messages') - Len(messages)]
    /\ last' = [op |-> "settled", r |-> r, ok |-> reqs[r].ok,
                statusText |-> reqs[r].statusText, json |-> outcome]
    /\ UNCHANGED <<floating, question, isOpen, nreq>>

\* CatchFinally appending to the messages handleSubmit saw when it was
\* called, not to the previous state (setMessages([...messages, m]))
CatchFinallyStaleMessages(r, c, outcome) ==
    LET seen == SubSeq(messages, 1, reqs[r].at) IN
    /\ messages' =
          IF ~c.threw THEN Append(seen, AssistantMessage(c.content))
          ELSE IF IsAbort(c.err) THEN messages
          ELSE Append(seen, ErrorMessage(c.err.message))
    /\ error' =
          IF c.threw /\ ~IsAbort(c.err) THEN <<c.err.message>> ELSE error
    /\ abortControllerRef' = 0
    /\ loading' = FALSE
    /\ reqs' = [reqs EXCEPT ![r].pc = "done", ![r].ok = FALSE,
                            ![r].statusText = "",
                            ![r].appended = IF Len(messages') > Len(messages)
                                             THEN 1 ELSE 0]
    /\ last' = [op |-> "settled", r |-> r, ok |-> reqs[r].ok,
                statusText |-> reqs[r].statusText, json |-> outcome]
    /\ UNCHANGED <<floating, question, isOpen, nreq>>

\* lines 111-120: the append of the try block, the catch block and the
\* finally block, for a try block that completed as `c` after res.json()
\* settled with `outcome` (NotSettled when fetch itself rejected)
CatchFinally(r, c, outcome) ==
    /\ messages' =
          IF ~c.threw THEN Append(messages, AssistantMessage(c.content))
          ELSE IF IsAbort(c.err) THEN messages
          ELSE Append(messages, ErrorMessage(c.err.message))
    /\ error' =
          IF c.threw /\ ~IsAbort(c.err) THEN <<c.err.message>> ELSE error
    /\ abortControllerRef' = 0
    /\ loading' = FALSE
    /\ reqs' = [reqs EXCEPT ![r].pc = "done", ![r].ok = FALSE,
                            ![r].statusText = "",
                            ![r].appended = Len(messages') - Len(messages)]
    /\ last' = [op |-> "settled", r |-> r, ok |-> reqs[r].ok,
                statusText |-> reqs[r].statusText, json |-> outcome]
    /\ UNCHANGED <<floating, question, isOpen, nreq>>

\* await fetch(...) rejects: with AbortError once the signal is aborted,
\* with a TypeError when the network fails
fetchRejected(r) ==
    /\ reqs[r].pc = "fetch"
    /\ CatchFinally(r, [threw |-> TRUE,
                        err |-> IF reqs[r].aborted THEN AbortError
                                ELSE NetworkError,
                        content |-> ""],
                    NotSettled)

\* how res.json() can settle: abort errors the body stream; otherwise the
\* body parses to an object or does not parse
JsonOutcomes(r, bodies) ==
    IF reqs[r].aborted
    THEN {[resolved |-> FALSE, reason |-> AbortError]}
    ELSE {[resolved |-> TRUE, value |-> b] : b \in bodies}
         \cup {[resolved |-> FALSE, reason |-> SyntaxError]}

\* await res.json().catch(...) settles and handleSubmit runs to its end
jsonSettled(r, bodies) ==
    /\ reqs[r].pc = "json"
    /\ \E outcome \in JsonOutcomes(r, bodies) :
          CatchFinally(r, AfterJson(r, outcome), outcome)

\* open as a toggle: onClick={() => setIsOpen(o => !o)}
openToggle ==
    /\ floating
    /\ isOpen' = ~isOpen
    /\ last' = Step("open")
    /\ UNCHANGED <<floating, question, messages, loading, error,
                   abortControllerRef, reqs, nreq>>

\* the floating button: onClick={() => setIsOpen(true)}
open ==
    /\ floating
    /\ isOpen' = TRUE
    /\ last' = Step("open")
    /\ UNCHANGED <<floating, question, messages, loading, error,
                   abortControllerRef, reqs, nreq>>

\* close that also resets the Draft
closeDroppingDraft ==
    /\ floating
    /\ isOpen
    /\ isOpen' = FALSE
    /\ question' = <<>>
    /\ last' = Step("close")
    /\ UNCHANGED <<floating, messages, loading, error,
                   abortControllerRef, reqs, nreq>>

\* close that also cancels the pending request
closeAborting ==
    /\ floating
    /\ isOpen
    /\ isOpen' = FALSE
    /\ last' = Step("close")
    /\ IF abortControllerRef # 0
       THEN /\ reqs' = [reqs EXCEPT ![abortControllerRef].aborted = TRUE]
            /\ abortControllerRef' = 0
       ELSE UNCHANGED <<reqs, abortControllerRef>>
    /\ loading' = FALSE
    /\ UNCHANGED <<floating, question, messages, error, nreq>>

\* the Hide button of the panel: onClick={() => setIsOpen(false)}
close ==
    /\ floating
    /\ isOpen
    /\ isOpen' = FALSE
    /\ last' = Step("close")
    /\ UNCHANGED <<floating, question, messages, loading, error,
                   abortControllerRef, reqs, nreq>>

Next ==
    \/ setQuestion(FewInputs.drafts)
    \/ handleSubmit(FewInputs.cap)
    \/ handleCancel
    \/ \E r \in Requests : fetchResolved(r, FewInputs.statusTexts)
    \/ \E r \in Requests : fetchRejected(r)
    \/ \E r \in Requests : jsonSettled(r, FewInputs.bodies)
    \/ open
    \/ close

Spec == Init /\ [][Next]_vars

\* an instance rendered inline (floating = false), which has no Open and no
\* Hide button, fed with all the texts
InitTexts == Mount(FALSE)

NextTexts ==
    \/ setQuestion(AllInputs.drafts)
    \/ handleSubmit(AllInputs.cap)
    \/ handleCancel
    \/ \E r \in Requests : fetchResolved(r, AllInputs.statusTexts)
    \/ \E r \in Requests : fetchRejected(r)
    \/ \E r \in Requests : jsonSettled(r, AllInputs.bodies)

SpecTexts == InitTexts /\ [][NextTexts]_vars

\* an instance of either kind
InitSettling == \E isFloating \in BOOLEAN : Mount(isFloating)

NextSettling ==
    \/ setQuestion(PlainInputs.drafts)
    \/ handleSubmit(PlainInputs.cap)
    \/ handleCancel
    \/ \E r \in Requests : fetchResolved(r, PlainInputs.statusTexts)
    \/ \E r \in Requests : fetchRejected(r)
    \/ \E r \in Requests : jsonSettled(r, PlainInputs.bodies)
    \/ open
    \/ close

\* the promise the call r awaits is settled in the end and the call resumes:
\* fetch resolves or rejects, and so does res.json()
NetworkSettles(r) ==
    \/ fetchResolved(r, PlainInputs.statusTexts)
    \/ fetchRejected(r)
    \/ jsonSettled(r, PlainInputs.bodies)

SpecSettling ==
    /\ InitSettling
    /\ [][NextSettling]_vars
    /\ \A r \in Requests : WF_vars(NetworkSettles(r))

----------------------------------------------------------------------------
(* Vocabulary of the properties *)

Count(role) ==
    Cardinality({i \in DOMAIN messages : messages[i].role = role})

\* user messages minus assistant messages (normal or isError)
Balance == Count("user") - Count("assistant")

\* the call r is between its submit and its return
InFlight(r) == reqs[r].pc \in {"fetch", "json"}

\* this step is the one in which the call r returns
Settles(r) == InFlight(r) /\ reqs'[r].pc = "done"

NoCancelSoFar == \A r \in Requests : ~reqs[r].aborted

OnlyWhiteSpace(s) == \A i \in DOMAIN s : s[i] \in WhiteSpace

\* q is s without its leading and trailing white space, and is not empty
IsTrimmedTextOf(q, s) ==
    \E i, j \in DOMAIN s :
        /\ i <= j
        /\ q = SubSeq(s, i, j)
        /\ s[i] \notin WhiteSpace
        /\ s[j] \notin WhiteSpace
        /\ \A k \in DOMAIN s : (k < i \/ k > j) => s[k] \in WhiteSpace

LastMessage == messages[Len(messages)]

RequestStateEtc == <<messages, question, error, loading, abortControllerRef,
                     reqs, nreq>>

\* the presentation state the render shows
PresentationState ==
    IF ~floating THEN "inline"
    ELSE IF isOpen THEN "floating-open"
    ELSE "floating-closed"

----------------------------------------------------------------------------
(* C1: in every reachable state the number of user messages minus the      *)
(* number of assistant messages is 0 or 1.  As stated this fails: a        *)
(* cancelled question keeps its user message and gets no reply.            *)
C1_BalanceZeroOrOne == Balance \in {0, 1}

(* C1, amended: there are never more assistant than user messages, and     *)
(* while no pending request has been cancelled the difference is 0 or 1.   *)
C1_BalanceWithoutCancel ==
    /\ Balance >= 0
    /\ NoCancelSoFar => Balance \in {0, 1}

C1_Witness ==
    /\ NoCancelSoFar
    /\ Count("user") = 2
    /\ Count("assistant") = 1
    /\ messages[2].isError
    /\ loading

(* C2: cancel() while a request is pending sets RequestState to idle and   *)
(* appends nothing, and when a cancelled request settles afterwards, in    *)
(* whichever await it was, nothing is appended and the banner is not set.  *)
C2_CancelIsSilent ==
    [][/\ (last'.op = "cancel" /\ loading) =>
              (~loading' /\ messages' = messages /\ error' = error)
       /\ \A r \in Requests :
              (reqs[r].aborted /\ Settles(r)) =>
                  (messages' = messages /\ error' = error)]_vars

(* C3: at most one accepted, not cancelled, not yet settled request exists *)
(* in every reachable state.                                               *)
C3_AtMostOneLive ==
    Cardinality({r \in Requests : InFlight(r) /\ ~reqs[r].aborted}) <= 1

(* C4: a submit while RequestState is pending changes nothing: not the     *)
(* Conversation, the Draft, the banner, RequestState or the abort handle,  *)
(* and no request is issued.                                               *)
C4_SubmitWhilePendingIsNoOp ==
    [][(last'.op = "submit" /\ loading) => UNCHANGED RequestStateEtc]_vars

C4_Witness ==
    /\ last.op = "submit"
    /\ loading
    /\ ~OnlyWhiteSpace(question)
    /\ nreq = 1

(* C5: a submit whose question is empty or only white space is a no-op in  *)
(* every state: nothing appended, RequestState as it was, no request       *)
(* issued, no error shown.                                                 *)
C5_BlankSubmitIsNoOp ==
    [][(last'.op = "submit" /\ OnlyWhiteSpace(question)) =>
          UNCHANGED RequestStateEtc]_vars

C5_Witness ==
    /\ last.op = "submit"
    /\ question # <<>>
    /\ OnlyWhiteSpace(question)
    /\ ~loading
    /\ nreq = 0

(* C6: submit while idle with a question whose trimmed text q is not empty *)
(* appends exactly one user message with content q, clears the Draft and   *)
(* sets RequestState to pending in that very step; the user message is in  *)
(* the Conversation in every state in which the request can settle, and    *)
(* the settle leaves the Draft alone.                                      *)
C6_SubmitEchoesAtOnce ==
    /\ [][/\ (last'.op = "submit" /\ ~loading /\ ~OnlyWhiteSpace(question)) =>
                 \E i, j \in DOMAIN question :
                     LET q == SubSeq(question, i, j) IN
                     /\ IsTrimmedTextOf(q, question)
                     /\ messages' = Append(messages, UserMessage(ToText(q)))
                     /\ question' = <<>>
                     /\ loading'
          /\ \A r \in Requests : Settles(r) => question' = question]_vars
    /\ [](\A r \in Requests :
             InFlight(r) =>
                 /\ reqs[r].at \in DOMAIN messages
                 /\ messages[reqs[r].at] = UserMessage(reqs[r].q))

C6_Witness ==
    /\ last.op = "submit"
    /\ loading
    /\ question = <<>>
    /\ nreq = 1
    /\ reqs[1].pc = "fetch"
    /\ messages = <<UserMessage("aa")>>

\* the answer field of what res.json() settled with, "" when there is none
AnswerField(json) ==
    IF json.resolved /\ json.value.answer.t = "string"
    THEN json.value.answer.v
    ELSE ""

DetailField(json) == IF json.resolved THEN json.value.detail ELSE Undefined

\* the text of C8 as claimed: any message field of an object detail counts
ClaimedErrorText(json, statusText) ==
    LET d == DetailField(json) IN
    IF d.t = "string" THEN d.v
    ELSE IF d.t = "object" /\ d.message.t = "string" THEN d.message.v
    ELSE IF statusText # "" THEN statusText
    ELSE "Request failed"

\* the text of C8 as amended: only a non-empty message field counts
AmendedErrorText(json, statusText) ==
    LET d == DetailField(json) IN
    IF d.t = "string" THEN d.v
    ELSE IF d.t = "object" /\ d.message.t = "string" /\ d.message.v # ""
    THEN d.message.v
    ELSE IF statusText # "" THEN statusText
    ELSE "Request failed"

C9_UnparseableBodyIsEmptyObject ==
    [][\A r \in Requests :
          (Settles(r) /\ ~last'.json.resolved
           /\ last'.json.reason = SyntaxError) =>
              messages' =
                  Append(messages,
                         IF reqs[r].ok THEN AssistantMessage("")
                         ELSE IF reqs[r].statusText # ""
                         THEN ErrorMessage(reqs[r].statusText)
                         ELSE ErrorMessage("Request failed"))]_vars

C9_Witness ==
    /\ last.op = "settled"
    /\ last.json = [resolved |-> FALSE, reason |-> SyntaxError]
    /\ ~last.ok
    /\ last.statusText = "Internal Server Error"
    /\ messages = <<UserMessage("a"), ErrorMessage("Internal Server Error")>>

(* C11: every accepted request leaves RequestState idle in the end, given  *)
(* that the network call settles; after any error outcome the widget is   *)
(* idle at once, and the next submit with a non-empty question is accepted *)
(* (it appends the question and issues a request).                         *)
C11_AlwaysIdleAgain ==
    /\ \A r \in Requests : InFlight(r) ~> (reqs[r].pc = "done" /\ ~loading)
    /\ loading ~> ~loading
    /\ [][/\ \A r \in Requests :
                 (Settles(r) /\ Len(messages') > Len(messages)
                  /\ messages'[Len(messages')].isError) => ~loading'
          /\ (last.op = "settled" /\ reqs[last.r].appended = 1
              /\ LastMessage.isError /\ last'.op = "submit"
              /\ ~OnlyWhiteSpace(question)) =>
                 /\ messages' = Append(messages,
                                       UserMessage(ToText(trim(question))))
                 /\ nreq' = nreq + 1
                 /\ loading']_vars

C11_Witness ==
    /\ nreq = 2
    /\ reqs[1].pc = "done"
    /\ ~reqs[1].aborted
    /\ Len(messages) = 3
    /\ messages[2].isError
    /\ messages[3].role = "user"
    /\ last.op = "submit"
    /\ loading

(* C10: a request settles without appending a message if and only if       *)
(* cancel() was called for it: a request never cancelled appends exactly   *)
(* one assistant message when it settles, a cancelled one appends none.    *)
C10_SilentIffCancelled ==
    \A r \in Requests :
        reqs[r].pc = "done" =>
            reqs[r].appended = (IF reqs[r].aborted THEN 0 ELSE 1)

(* C12: a floating instance starts in floating-closed; open() then close() *)
(* ends in floating-closed; open() and close() leave the Conversation, the *)
(* Draft, RequestState, the banner and the calls in flight unchanged in    *)
(* every state.                                                            *)
C12_OpenCloseOnlyMovePanel ==
    /\ floating => PresentationState = "floating-closed"
    /\ [][/\ last'.op \in {"open", "close"} => UNCHANGED RequestStateEtc
          /\ (last.op = "open" /\ last'.op = "close") =>
                 PresentationState' = "floating-closed"]_vars

C12_Witness ==
    /\ last.op = "close"
    /\ PresentationState = "floating-closed"
    /\ question # <<>>
    /\ messages # <<>>
    /\ loading

(* C13: the Conversation before a step is a prefix of the Conversation     *)
(* after it, and a step appends at most one message.                       *)
C13_AppendOnly ==
    [][/\ Len(messages') \in {Len(messages), Len(messages) + 1}
       /\ messages = SubSeq(messages', 1, Len(messages))]_vars

C13_Witness ==
    /\ last.op = "settled"
    /\ reqs[last.r].appended = 1
    /\ reqs[last.r].at < Len(messages) - 1
    /\ Len(messages) >= 4

(* C14: cancel() while RequestState is idle changes nothing: Conversation, *)
(* Draft, banner, RequestState and abort handle stay, and no call in       *)
(* flight is aborted.                                                      *)
C14_IdleCancelIsNoOp ==
    [][(last'.op = "cancel" /\ ~loading) => UNCHANGED RequestStateEtc]_vars

C14_Witness ==
    /\ last.op = "cancel"
    /\ NoCancelSoFar
    /\ ~loading
    /\ error # <<>>
    /\ question # <<>>
    /\ Len(messages) = 2

(* C15: whenever an accepted request is in flight and not cancelled,       *)
(* RequestState is pending and the stored abort handle is the handle of    *)
(* that request; in particular the late settle of a cancelled request      *)
(* leaves both alone.                                                      *)
C15_HandleIsTheLiveRequest ==
    \A r \in Requests :
        (InFlight(r) /\ ~reqs[r].aborted) =>
            (loading /\ abortControllerRef = r)

(* C16: a non-floating instance is inline for its whole lifetime, its      *)
(* panel is always rendered and neither open nor close is enabled; a       *)
(* floating instance starts in floating-closed, open is enabled in both    *)
(* floating states and leads to floating-open, close is enabled exactly in *)
(* floating-open and leads to floating-closed.                             *)
C16_PresentationStates ==
    /\ PresentationState = IF floating THEN "floating-closed" ELSE "inline"
    /\ [](/\ ~floating => /\ PanelRendered
                          /\ ~ENABLED open
                          /\ ~ENABLED close
          /\ floating => /\ ENABLED open
                         /\ isOpen <=> ENABLED close)
    /\ [][/\ floating' = floating
          /\ last'.op = "open" => PresentationState' = "floating-open"
          /\ last'.op = "close" => PresentationState' = "floating-closed"]_vars

C16_Witness ==
    /\ floating
    /\ last.op = "open"
    /\ PresentationState = "floating-open"
    /\ messages # <<>>

\* the message the settle step `step` of a call that was not cancelled is
\* to append, from what the network delivered to it
ReplyOf(step) ==
    IF step.json = NotSettled THEN ErrorMessage(NetworkError.message)
    ELSE IF step.ok THEN AssistantMessage(AnswerField(step.json))
    ELSE ErrorMessage(AmendedErrorText(step.json, step.statusText))

(* C17: close() while a request is pending keeps RequestState pending and  *)
(* aborts nothing, and the settle of a request that was not cancelled      *)
(* appends its answer or error message whatever the panel's state.         *)
C17_CloseDoesNotCancel ==
    [][/\ (last'.op = "close" /\ loading) =>
              /\ loading'
              /\ UNCHANGED <<reqs, abortControllerRef, messages>>
       /\ \A r \in Requests :
              (Settles(r) /\ ~reqs[r].aborted) =>
                  messages' = Append(messages, ReplyOf(last'))]_vars

C17_Witness ==
    /\ last.op = "settled"
    /\ NoCancelSoFar
    /\ floating
    /\ ~isOpen
    /\ reqs[last.r].appended = 1
    /\ LastMessage = ReplyOf(last)
    /\ ~loading

(* C18: if the banner is non-empty, the last message of the Conversation   *)
(* is an isError assistant message with the banner's text as content.      *)
C18_BannerIsLastMessage ==
    (error # <<>> /\ error[1] # "") =>
        /\ messages # <<>>
        /\ LastMessage = ErrorMessage(error[1])

(* C19: every assistant message is immediately preceded by a user message. *)
C19_AssistantFollowsUser ==
    \A i \in DOMAIN messages :
        messages[i].role = "assistant" =>
            /\ i > 1
            /\ messages[i - 1].role = "user"

====
